---- MODULE Spec2Model ----
(***************************************************************************)
(* Validation, dimensional transform, database load and orchestration of  *)
(* the Contoso analytics pipeline (src/pipeline/validate.py,               *)
(* src/pipeline/transform.py, src/storage/sqlite_loader.py,                *)
(* src/run_pipeline.py).                                                   *)
(*                                                                         *)
(* A DataFrame is a record [columns, rows]: the set of column names and    *)
(* the ordered rows, each row a function from column name to cell.  A cell *)
(* is a tagged record, so that cells of different Python types are never   *)
(* equal: Null (None/NaN/NaT), Num(n), Str(s), Date(y, m, d).              *)
(* Money is counted in integer units; the unit prices of the model are     *)
(* multiples of 5, so that 0.6 * amount is an integer.                     *)
(***************************************************************************)
EXTENDS Integers, Sequences, FiniteSets, TLC

VARIABLES
    pc,            \* position of the running call
    source_type,   \* "csv" (Sales) or "api" (UserProfile)
    df,            \* the frame given to validate_data
    df_validated,  \* validate_data's working frame
    report,        \* the ValidationReport object of the running call
    logs,          \* LOGS_DIR: the validation report files written, in order
    returned,      \* what validate_data returned (NoFrame until it returns)
    e,             \* the exception caught by validate_data's except clause
    raised,        \* the exception validate_data / transform_data raised
    run,           \* 1 for the first validate call, 2 for the re-validation
    first,         \* the frame the first validate call returned
    tables,        \* what transform_data returned (NoTables until it returns)
    db,            \* the ContosoDatabase object and the tables of its file
    load,          \* the running load_to_database call
    main           \* the running main call of run_pipeline.py

\* the variables of a validate_data / transform_data call
validation == <<pc, source_type, df, df_validated, report, logs, returned, e,
                raised, run, first, tables>>

vars == <<pc, source_type, df, df_validated, report, logs, returned, e, raised,
          run, first, tables, db, load, main>>

\* ------------------------------------------------------------------ bounds

\* most rows of a raw frame given to validate_data
MaxRows == 2
\* most rows of a cleaned frame given directly to transform_data
MaxCleanRows == 3

\* ------------------------------------------------------------------- cells

Null == [null |-> TRUE]
Num(n) == [num |-> n]
Str(s) == [str |-> s]
Date(y, m, d) == [y |-> y, m |-> m, d |-> d]

IsNum(c) == "num" \in DOMAIN c
IsStr(c) == "str" \in DOMAIN c
IsDate(c) == "y" \in DOMAIN c

NoFrame == [none |-> "frame"]
NoTables == [none |-> "tables"]
NoExc == [none |-> "exception"]
NoDatabase == [none |-> "database"]
NoLoad == [none |-> "load"]
NoMain == [none |-> "main"]

\* ---------------------------------------------------------- text lexicons
\* What the parsers make of the texts the model's frames hold.

\* pd.to_datetime on a text: the date it parses to, Null (NaT) otherwise
DateText(s) ==
    CASE s = "2025-01-01" -> Date(2025, 1, 1)
      [] s = "2025-01-02" -> Date(2025, 1, 2)
      [] s = "2025-01-01 00:00:00" -> Date(2025, 1, 1)
      [] s = "2025-01-02 00:00:00" -> Date(2025, 1, 2)
      [] OTHER -> Null

\* pd.to_numeric on a text: the number it parses to, Null (NaN) otherwise
NumericText(s) ==
    CASE s = "1" -> Num(1)
      [] s = "01" -> Num(1)
      [] s = "2" -> Num(2)
      [] s = "3" -> Num(3)
      [] OTHER -> Null

\* str.split("@"): the pieces of a text around each "@"
SplitAt(s) ==
    CASE s = "john@example.com" -> <<"john", "example.com">>
      [] s = "jane@company.org" -> <<"jane", "company.org">>
      [] OTHER -> <<s>>

\* int(x.replace('PROD', ''))
ProdNumber(s) ==
    CASE s = "PROD001" -> 1
      [] s = "PROD002" -> 2
      [] s = "PROD003" -> 3

\* --------------------------------------------------------- pandas helpers

\* the rows of s at the positions in keep, in their order
KeepRows(s, keep) ==
    LET F[i \in 0..Len(s)] ==
            IF i = 0 THEN <<>>
            ELSE IF i \in keep THEN Append(F[i - 1], s[i]) ELSE F[i - 1]
    IN  F[Len(s)]

\* concatenation of a sequence of sequences
RECURSIVE Flatten(_)
Flatten(ss) == IF ss = <<>> THEN <<>> ELSE Head(ss) \o Flatten(Tail(ss))

\* r extended (or overwritten) with column c holding v
With(r, c, v) == [k \in DOMAIN r \cup {c} |-> IF k = c THEN v ELSE r[k]]

\* r restricted to the columns cols
Project(r, cols) == [k \in cols |-> r[k]]

\* DataFrame.isnull().sum() restricted to the columns with nulls
NullCounts(f) ==
    LET n(c) == Cardinality({i \in 1..Len(f.rows) : f.rows[i][c] = Null})
    IN  [c \in {c \in f.columns : n(c) > 0} |-> n(c)]

\* DataFrame.dropna(subset): rows with no null among the subset columns
DropNa(f, subset) ==
    [f EXCEPT !.rows = KeepRows(f.rows,
        {i \in 1..Len(f.rows) : \A c \in subset : f.rows[i][c] # Null})]

\* the positions of the first occurrence of each value of the columns subset
FirstOccurrences(rows, subset) ==
    {i \in 1..Len(rows) :
        \A j \in 1..(i - 1) : Project(rows[j], subset) # Project(rows[i], subset)}

\* drop_duplicates keeping the last occurrence of each value instead
DropDuplicatesKeepLast(f, subset) ==
    [f EXCEPT !.rows = KeepRows(f.rows,
        {i \in 1..Len(f.rows) :
            \A j \in (i + 1)..Len(f.rows) :
                Project(f.rows[j], subset) # Project(f.rows[i], subset)})]

\* DataFrame.drop_duplicates(subset), keep="first"
DropDuplicates(f, subset) ==
    [f EXCEPT !.rows = KeepRows(f.rows, FirstOccurrences(f.rows, subset))]

\* dropna written where fillna stands: the rows with a null c are removed
DropUnfilled(f, c, v) == DropNa(f, {c})

\* Series.fillna(v) on column c
FillNa(f, c, v) ==
    [f EXCEPT !.rows = [i \in 1..Len(f.rows) |->
        IF f.rows[i][c] = Null THEN With(f.rows[i], c, v) ELSE f.rows[i]]]

\* pd.to_datetime(x, errors="coerce") on one cell
ToDatetime(c) ==
    CASE IsDate(c) -> c
      [] IsStr(c) -> DateText(c.str)
      [] IsNum(c) -> Date(1970, 1, 1)
      [] OTHER -> Null

\* pd.to_numeric(x, errors="coerce") on one cell
ToNumeric(c) ==
    CASE IsNum(c) -> c
      [] IsStr(c) -> NumericText(c.str)
      [] OTHER -> Null

\* df[c] = pd.to_datetime(df[c], errors="coerce")
CoerceDatetime(f, c) ==
    [f EXCEPT !.rows = [i \in 1..Len(f.rows) |->
        With(f.rows[i], c, ToDatetime(f.rows[i][c]))]]

\* df[c] = pd.to_numeric(df[c], errors="coerce")
CoerceNumeric(f, c) ==
    [f EXCEPT !.rows = [i \in 1..Len(f.rows) |->
        With(f.rows[i], c, ToNumeric(f.rows[i][c]))]]

\* the filter written df[df[c] >= 0]
NonNegative(f, c) ==
    [f EXCEPT !.rows = KeepRows(f.rows,
        {i \in 1..Len(f.rows) : f.rows[i][c].num >= 0})]

\* df[df[c] > 0]
Positive(f, c) ==
    [f EXCEPT !.rows = KeepRows(f.rows,
        {i \in 1..Len(f.rows) : f.rows[i][c].num > 0})]

\* Series.str.contains("@", na=False) on one cell
ContainsAt(c) == IsStr(c) /\ Len(SplitAt(c.str)) > 1

\* -------------------------------------------------------- ValidationReport

\* ValidationReport.__init__, then report.initial_count = len(df)
NewReport(kind, f) ==
    [source_type |-> kind, checks |-> <<>>, errors |-> <<>>, warnings |-> <<>>,
     initial_count |-> Len(f.rows), final_count |-> 0]

\* add_check putting the entry in front of the earlier ones
AddCheckFirst(r, name, status, details) ==
    [r EXCEPT !.checks = <<[check |-> name, status |-> status,
                            details |-> details]>> \o @]

AddCheck(r, name, status, details) ==
    [r EXCEPT !.checks = Append(@, [check |-> name, status |-> status,
                                    details |-> details])]

\* add_error losing the error
ForgetError(r, error) == r

AddError(r, error) == [r EXCEPT !.errors = Append(@, error)]

AddWarning(r, warning) == [r EXCEPT !.warnings = Append(@, warning)]

\* the dict ValidationReport.save writes to its log file
ReportDict(r) ==
    [source_type |-> r.source_type,
     initial_record_count |-> r.initial_count,
     final_record_count |-> r.final_count,
     records_removed |-> r.initial_count - r.final_count,
     checks |-> r.checks, errors |-> r.errors, warnings |-> r.warnings,
     status |-> IF r.errors # <<>> THEN "FAILED" ELSE "PASSED"]

\* a details text with the number formatted into it
Removed(n, what) == [text |-> what, removed |-> n]
Text(what) == [text |-> what]

\* --------------------------------------------------------- validate_data

RequiredCsv ==
    {"transaction_id", "date", "product_id", "customer_id",
     "quantity", "unit_price", "total_amount"}

RequiredApi == {"id", "name", "username", "email"}

\* validate_csv_schema / validate_api_schema: the missing required columns
MissingColumns(f, kind) ==
    (IF kind = "csv" THEN RequiredCsv ELSE RequiredApi) \ f.columns

SchemaError(missing) ==
    [type |-> "ValueError", msg |-> "Missing required columns: {missing}", missing |-> missing]

\* Each check maps the working frame and the report to the pair after it.
After(f, r) == [frame |-> f, report |-> r]

NullKeyColumns == {"transaction_id", "product_id", "customer_id"}

NullAudit(f, r, kind) ==
    LET nulls == NullCounts(f)
        warned == AddWarning(r, [text |-> "Null values detected: {null_dict}", nulls |-> nulls])
    IN  IF DOMAIN nulls # {}
        THEN IF kind = "csv"
             THEN LET g == DropNa(f, NullKeyColumns)
                  IN  After(g, AddCheck(warned, "Null Handling", "PASSED",
                          Removed(Len(f.rows) - Len(g.rows),
                                  "Removed {removed} rows with null key fields")))
             ELSE LET g1 == IF "phone" \in f.columns
                            THEN FillNa(f, "phone", Str("N/A")) ELSE f
                      g2 == IF "website" \in g1.columns
                            THEN FillNa(g1, "website", Str("N/A")) ELSE g1
                  IN  After(g2, AddCheck(warned, "Null Handling", "PASSED",
                          Text("Filled defaults for optional fields")))
        ELSE After(f, AddCheck(r, "Null Check", "PASSED",
                               Text("No null values found")))

PrimaryKey(kind) == IF kind = "csv" THEN "transaction_id" ELSE "id"

\* the deduplication as it would act after the later checks: a row is a
\* duplicate only of an earlier row that those checks keep
DeduplicationOfKept(f, r, kind) ==
    LET kept(x) ==
            IF kind = "csv"
            THEN /\ ToDatetime(x["date"]) # Null
                 /\ ToNumeric(x["total_amount"]) # Null
                 /\ \A c \in {"quantity", "unit_price"} :
                       ToNumeric(x[c]) # Null /\ ToNumeric(x[c]).num > 0
            ELSE ToNumeric(x["id"]) # Null /\ ContainsAt(x["email"])
        g == [f EXCEPT !.rows = KeepRows(f.rows,
                 {i \in 1..Len(f.rows) :
                     \A j \in 1..(i - 1) :
                         kept(f.rows[j]) =>
                             f.rows[j][PrimaryKey(kind)] # f.rows[i][PrimaryKey(kind)]})]
    IN  After(g, AddCheck(r, "Deduplication", "PASSED",
                  Removed(Len(f.rows) - Len(g.rows), "Removed {removed} duplicate records")))

Deduplication(f, r, kind) ==
    LET g == DropDuplicates(f, {PrimaryKey(kind)})
    IN  After(g, AddCheck(r, "Deduplication", "PASSED",
                  Removed(Len(f.rows) - Len(g.rows), "Removed {removed} duplicate records")))

TypedCsvColumns == {"date", "quantity", "unit_price", "total_amount"}

TypeEnforcement(f, r, kind) ==
    IF kind = "csv"
    THEN LET c == CoerceNumeric(CoerceNumeric(CoerceNumeric(CoerceDatetime(f,
                      "date"), "quantity"), "unit_price"), "total_amount")
             g == DropNa(c, TypedCsvColumns)
             removed == Len(c.rows) - Len(g.rows)
             w == IF removed > 0
                  THEN AddWarning(r, Removed(removed,
                           "Removed {removed} rows due to type conversion issues"))
                  ELSE r
         IN  After(g, AddCheck(w, "Type Enforcement", "PASSED", Text("")))
    ELSE LET c == CoerceNumeric(f, "id")
             g == DropNa(c, {"id"})
             removed == Len(c.rows) - Len(g.rows)
             w == IF removed > 0
                  THEN AddWarning(r, Removed(removed, "Removed {removed} rows with invalid ID"))
                  ELSE r
         IN  After(g, AddCheck(w, "Type Enforcement", "PASSED", Text("")))

\* the ingested total_amount left as it came
KeepIngestedTotals(f) == f

\* total_amount = quantity * unit_price through the calculated_total column
RecalculateTotals(f) ==
    [f EXCEPT !.rows = [i \in 1..Len(f.rows) |->
        With(f.rows[i], "total_amount",
             Num(f.rows[i]["quantity"].num * f.rows[i]["unit_price"].num))]]

BusinessRules(f, r, kind) ==
    IF kind = "csv"
    THEN LET kept == Positive(Positive(f, "quantity"), "unit_price")
             removed == Len(f.rows) - Len(kept.rows)
         IN  After(RecalculateTotals(kept),
                   AddCheck(r, "Business Rules", "PASSED",
                       Removed(removed,
                       "Removed {removed} rows with invalid quantity/price; "
                       \o "recalculated totals")))
    ELSE LET kept == [f EXCEPT !.rows = KeepRows(f.rows,
                         {i \in 1..Len(f.rows) : ContainsAt(f.rows[i]["email"])})]
             removed == Len(f.rows) - Len(kept.rows)
         IN  After(kept, AddCheck(r, "Business Rules", "PASSED",
                       Removed(removed, "Removed {removed} rows with invalid email")))

\* ---------------------------------------------------------- transform.py

\* Timestamp.dayofweek (Monday = 0) of a date
DayOfWeek(c) ==
    LET t == <<0, 3, 2, 5, 0, 3, 5, 1, 4, 6, 2, 4>>
        y == IF c.m < 3 THEN c.y - 1 ELSE c.y
        sunday0 == (y + (y \div 4) - (y \div 100) + (y \div 400) + t[c.m] + c.d) % 7
    IN  (sunday0 + 6) % 7

MonthName(m) ==
    <<"January", "February", "March", "April", "May", "June", "July",
      "August", "September", "October", "November", "December">>[m]

\* the key column named key, numbered range(1, len + 1)
Numbered(rows, key) ==
    [i \in 1..Len(rows) |-> With(rows[i], key, Num(i))]

\* df[cols].drop_duplicates()
Distinct(f, cols) ==
    LET p == [i \in 1..Len(f.rows) |-> Project(f.rows[i], cols)]
    IN  KeepRows(p, FirstOccurrences(p, cols))

TimeDim(f) ==
    LET keyed == Numbered(Distinct(f, {"date"}), "date_id")
        derive(r) ==
            LET when == ToDatetime(r["date"])
                dow == IF when = Null THEN Null ELSE Num(DayOfWeek(when))
            IN  r @@ [year |-> IF when = Null THEN Null ELSE Num(when.y),
                      month |-> IF when = Null THEN Null ELSE Num(when.m),
                      quarter |-> IF when = Null THEN Null
                                  ELSE Num(((when.m - 1) \div 3) + 1),
                      day_of_week |-> dow,
                      month_name |-> IF when = Null THEN Null
                                     ELSE Str(MonthName(when.m)),
                      is_weekend |-> dow \in {Num(5), Num(6)}]
    IN  [i \in 1..Len(keyed) |-> derive(keyed[i])]

ProductDim(f) ==
    LET keyed == Numbered(Distinct(f, {"product_id"}), "product_key")
    IN  [i \in 1..Len(keyed) |->
            With(keyed[i], "product_category",
                 Str("Category_" \o
                     ToString((ProdNumber(keyed[i]["product_id"].str) % 3) + 1)))]

CustomerDim(f) ==
    Numbered(Distinct(f, {"customer_id", "region"}), "customer_key")

\* a join by row position instead of by the column on
MergeByPosition(left, right, on, key) ==
    [i \in 1..Len(left) |->
        With(left[i], key, IF i <= Len(right) THEN right[i][key] ELSE Null)]

\* left.merge(right[[on, key]], on=on, how="left")
MergeLeft(left, right, on, key) ==
    LET matches(l) == {j \in 1..Len(right) : right[j][on] = l[on]}
        joined(l) ==
            IF matches(l) = {}
            THEN <<With(l, key, Null)>>
            ELSE LET m == KeepRows(right, matches(l))
                 IN  [j \in 1..Len(m) |-> With(l, key, m[j][key])]
    IN  Flatten([i \in 1..Len(left) |-> joined(left[i])])

\* total_amount * 0.6
SixTenths(n) == (n * 6) \div 10

Financials(r) ==
    LET revenue == r["total_amount"].num
        cost == SixTenths(r["total_amount"].num)
        profit == revenue - cost
    IN  r @@ [revenue |-> Num(revenue), cost |-> Num(cost), profit |-> Num(profit),
              profit_margin |-> IF revenue = 0 THEN Null
                                ELSE Num((profit * 100) \div revenue)]

FactColumns ==
    {"transaction_id", "date_id", "product_key", "customer_key", "quantity",
     "unit_price", "revenue", "cost", "profit", "profit_margin"}

FactSales(f, dim_time, dim_product, dim_customer) ==
    LET df_fact ==
            MergeLeft(MergeLeft(MergeLeft(f.rows,
                dim_time, "date", "date_id"),
                dim_product, "product_id", "product_key"),
                dim_customer, "customer_id", "customer_key")
    IN  [i \in 1..Len(df_fact) |-> Project(Financials(df_fact[i]), FactColumns)]

KeyError(column) == [type |-> "KeyError", msg |-> column]

\* the columns transform_csv_data selects from its input
CsvInputColumns ==
    {"transaction_id", "date", "product_id", "customer_id", "quantity",
     "unit_price", "total_amount", "region"}

transform_csv_data(f) ==
    LET dim_time == TimeDim(f)
        dim_product == ProductDim(f)
        dim_customer == CustomerDim(f)
    IN  [fact_sales |-> FactSales(f, dim_time, dim_product, dim_customer),
         dim_time |-> dim_time,
         dim_product |-> dim_product,
         dim_customer |-> dim_customer]

\* Series.str.split("@").str[1] on one cell
EmailDomain(c) ==
    IF IsStr(c) /\ Len(SplitAt(c.str)) > 1 THEN Str(SplitAt(c.str)[2]) ELSE Null

\* Series.str.len() on one cell
StrLen(c) == IF IsStr(c) THEN Num(Len(c.str)) ELSE Null

UserColumns ==
    {"user_key", "id", "full_name", "username", "email", "email_domain", "phone",
     "website", "company_name", "city", "street", "zipcode", "name_length"}

transform_api_data(f) ==
    LET keyed == Numbered(f.rows, "user_key")
        derive(r) ==
            LET named == With(r, "full_name", r["name"])
                domained == IF "email" \in f.columns
                            THEN With(named, "email_domain", EmailDomain(r["email"]))
                            ELSE named
                sized == With(domained, "name_length", StrLen(r["name"]))
            IN  Project(sized, UserColumns \cap DOMAIN sized)
    IN  [dim_user |-> [i \in 1..Len(keyed) |-> derive(keyed[i])]]

\* the first column a transform selects that its input does not have
MissingInput(f, kind) ==
    (IF kind = "csv" THEN CsvInputColumns ELSE {"name"}) \ f.columns

transform_data(f, kind) ==
    IF kind = "csv" THEN transform_csv_data(f) ELSE transform_api_data(f)

\* ------------------------------------------------------------ raw inputs

\* r with the cell of column v[1] replaced by v[2]
Vary(r, v) == With(r, v[1], v[2])

BaseSale(t) ==
    [transaction_id |-> Str(t), date |-> Str("2025-01-01"),
     product_id |-> Str("PROD001"), customer_id |-> Str("CUST001"),
     quantity |-> Num(2), unit_price |-> Num(10), total_amount |-> Num(999),
     region |-> Str("North")]

SaleVariations ==
    {<<"quantity", Num(2)>>, <<"quantity", Str("3")>>, <<"quantity", Num(-1)>>,
     <<"unit_price", Num(0)>>, <<"total_amount", Str("n/a")>>,
     <<"date", Str("not a date")>>, <<"transaction_id", Null>>,
     <<"product_id", Null>>, <<"customer_id", Null>>, <<"region", Null>>}

RawSaleRows ==
    {Vary(BaseSale(t), v) : t \in {"TXN001", "TXN002"}, v \in SaleVariations}

BaseUser(i) ==
    [id |-> i, name |-> Str("John Doe"), username |-> Str("johnd"),
     email |-> Str("john@example.com"), phone |-> Str("555-1234"),
     website |-> Str("john.com")]

UserVariations ==
    {<<"email", Str("john@example.com")>>, <<"email", Str("invalid-email")>>,
     <<"email", Null>>, <<"phone", Null>>, <<"website", Null>>, <<"id", Null>>}

RawUserRows ==
    {Vary(BaseUser(i), v) :
        i \in {Num(1), Str("1"), Str("01"), Str("one")}, v \in UserVariations}

CsvColumns == RequiredCsv \cup {"region"}
ApiColumns == RequiredApi \cup {"phone", "website"}

\* the column sets of the frames given to validate_data
RawColumnSets(kind) ==
    IF kind = "csv"
    THEN {CsvColumns, RequiredCsv, CsvColumns \ {"total_amount"}}
    ELSE {ApiColumns, RequiredApi, ApiColumns \ {"email"}}

\* the rows a raw frame of the kind with the columns cols is made of
RawRows(kind, cols) ==
    {Project(r, cols) : r \in IF kind = "csv" THEN RawSaleRows ELSE RawUserRows}

\* ---------------------------------------------------- validate_data steps

\* the first lines of validate_data on frame f
Call(f, kind, n) ==
    /\ pc' = "schema"
    /\ source_type' = kind
    /\ df' = f
    /\ df_validated' = f
    /\ report' = NewReport(kind, f)
    /\ returned' = NoFrame
    /\ e' = NoExc
    /\ raised' = NoExc
    /\ run' = n

Init ==
    /\ pc = "schema"
    /\ source_type \in {"csv", "api"}
    /\ \E cols \in RawColumnSets(source_type), k \in 0..MaxRows :
          \E rs \in [1..k -> RawRows(source_type, cols)] :
             df = [columns |-> cols, rows |-> rs]
    /\ df_validated = df
    /\ report = NewReport(source_type, df)
    /\ logs = <<>>
    /\ returned = NoFrame
    /\ e = NoExc
    /\ raised = NoExc
    /\ run = 1
    /\ first = NoFrame
    /\ tables = NoTables
    /\ db = NoDatabase
    /\ load = NoLoad
    /\ main = NoMain

\* an exception thrown inside the try block reaches the except clause
Throw(exc) ==
    /\ pc' = "except"
    /\ e' = exc

Step(after, next) ==
    /\ df_validated' = after.frame
    /\ report' = after.report
    /\ pc' = next
    /\ UNCHANGED <<db, load, main>>
    /\ UNCHANGED <<source_type, df, logs, returned, e, raised, run, first, tables>>

SchemaPassed ==
    /\ pc = "schema"
    /\ MissingColumns(df_validated, source_type) = {}
    /\ Step(After(df_validated,
                  AddCheck(report, "Schema Validation", "PASSED", Text(""))),
            "nulls")

SchemaFailed ==
    /\ pc = "schema"
    /\ MissingColumns(df_validated, source_type) # {}
    /\ Throw(SchemaError(MissingColumns(df_validated, source_type)))
    /\ UNCHANGED <<db, load, main>>
    /\ UNCHANGED <<source_type, df, df_validated, report, logs, returned, raised,
                   run, first, tables>>

NullAuditStep ==
    /\ pc = "nulls"
    /\ Step(NullAudit(df_validated, report, source_type), "dedup")

DeduplicationStep ==
    /\ pc = "dedup"
    /\ Step(Deduplication(df_validated, report, source_type), "types")

TypeEnforcementStep ==
    /\ pc = "types"
    /\ Step(TypeEnforcement(df_validated, report, source_type), "rules")

BusinessRulesStep ==
    /\ pc = "rules"
    /\ Step(BusinessRules(df_validated, report, source_type), "save")

IOError(what) == [type |-> "OSError", msg |-> what]

\* report.final_count = len(df_validated); saved_report = report.save()
SaveReportWritten ==
    /\ pc = "save"
    /\ report' = [report EXCEPT !.final_count = Len(df_validated.rows)]
    /\ logs' = Append(logs, ReportDict(report'))
    /\ pc' = "export"
    /\ UNCHANGED <<db, load, main>>
    /\ UNCHANGED <<source_type, df, df_validated, returned, e, raised, run, first,
                   tables>>

\* report.save() cannot write its file
SaveReportFailed ==
    /\ pc = "save"
    /\ report' = [report EXCEPT !.final_count = Len(df_validated.rows)]
    /\ Throw(IOError("cannot write the validation report"))
    /\ UNCHANGED <<db, load, main>>
    /\ UNCHANGED <<source_type, df, df_validated, logs, returned, raised, run,
                   first, tables>>

\* export_validation_summary(), then return df_validated
ExportSummaryReturned ==
    /\ pc = "export"
    /\ pc' = "returned"
    /\ returned' = df_validated
    /\ first' = IF run = 1 THEN df_validated ELSE first
    /\ UNCHANGED <<db, load, main>>
    /\ UNCHANGED <<source_type, df, df_validated, report, logs, e, raised, run,
                   tables>>

\* export_validation_summary() cannot read a log file or write the summary
ExportSummaryFailed ==
    /\ pc = "export"
    /\ Throw(IOError("cannot export the validation summary"))
    /\ UNCHANGED <<db, load, main>>
    /\ UNCHANGED <<source_type, df, df_validated, report, logs, returned, raised,
                   run, first, tables>>

ValidationFailed(kind, cause) ==
    [type |-> "Exception", msg |-> "Validation failed for {source_type}: {str(e)}",
     source_type |-> kind, cause |-> cause]

\* an exception raised while another is being handled carries it as context
DuringHandling(exc, cause) ==
    [type |-> exc.type, msg |-> exc.msg, cause |-> cause]

\* except Exception as e: report.add_error(str(e)); report.save(); raise
ExceptClauseSaved ==
    /\ pc = "except"
    /\ report' = AddError(report, e)
    /\ logs' = Append(logs, ReportDict(report'))
    /\ raised' = ValidationFailed(source_type, e)
    /\ pc' = "raised"
    /\ UNCHANGED <<db, load, main>>
    /\ UNCHANGED <<source_type, df, df_validated, returned, e, run, first, tables>>

\* the same, report.save() failing inside the except clause
ExceptClauseUnsaved ==
    /\ pc = "except"
    /\ report' = AddError(report, e)
    /\ raised' = DuringHandling(IOError("cannot write the validation report"), e)
    /\ pc' = "raised"
    /\ UNCHANGED <<db, load, main>>
    /\ UNCHANGED <<source_type, df, df_validated, logs, returned, e, run, first,
                   tables>>

\* the caller validates the cleaned frame again with the same kind
Revalidate ==
    /\ pc = "returned"
    /\ run = 1
    /\ Call(returned, source_type, 2)
    /\ UNCHANGED <<db, load, main>>
    /\ UNCHANGED <<logs, first, tables>>

\* transformed = transform_data(validated, source_type), tables saved
TransformCompleted ==
    /\ pc = "returned"
    /\ MissingInput(returned, source_type) = {}
    /\ tables' = transform_data(returned, source_type)
    /\ pc' = "transformed"
    /\ UNCHANGED <<db, load, main>>
    /\ UNCHANGED <<source_type, df, df_validated, report, logs, returned, e, raised,
                   run, first>>

\* the transform selects a column its input lacks
TransformKeyError ==
    /\ pc = "returned"
    /\ MissingInput(returned, source_type) # {}
    /\ raised' = KeyError(CHOOSE c \in MissingInput(returned, source_type) : TRUE)
    /\ pc' = "transform_failed"
    /\ UNCHANGED <<db, load, main>>
    /\ UNCHANGED <<source_type, df, df_validated, report, logs, returned, e, run,
                   first, tables>>

\* save_transformed_data cannot write a table: nothing is returned
TransformSaveFailed ==
    /\ pc = "returned"
    /\ MissingInput(returned, source_type) = {}
    /\ raised' = IOError("cannot write the transformed table")
    /\ pc' = "transform_failed"
    /\ UNCHANGED <<db, load, main>>
    /\ UNCHANGED <<source_type, df, df_validated, report, logs, returned, e, run,
                   first, tables>>

Transform ==
    \/ TransformCompleted
    \/ TransformKeyError
    \/ TransformSaveFailed

\* validate_data while LOGS_DIR can be written
Validate ==
    \/ SchemaPassed
    \/ SchemaFailed
    \/ NullAuditStep
    \/ DeduplicationStep
    \/ TypeEnforcementStep
    \/ BusinessRulesStep
    \/ SaveReportWritten
    \/ ExportSummaryReturned
    \/ ExportSummaryFailed
    \/ ExceptClauseSaved

\* report.save() failing
SaveFaults ==
    \/ SaveReportFailed
    \/ ExceptClauseUnsaved

Next ==
    \/ Validate
    \/ SaveFaults
    \/ Revalidate
    \/ Transform

Spec == Init /\ [][Next]_vars

\* the runs of Spec in which every write to LOGS_DIR succeeds
NextWritable ==
    \/ Validate
    \/ Revalidate
    \/ Transform

SpecWritable == Init /\ [][NextWritable]_vars

\* --------------------------------------- transform_data on cleaned frames

TxnId(i) == Str("TXN00" \o ToString(i))

\* the cleaned Sales rows without their transaction_id
CleanSaleRows ==
    [date : {Date(2025, 1, 1), Date(2025, 1, 2)},
     product_id : {Str("PROD001"), Str("PROD002")},
     customer_id : {Str("CUST001"), Str("CUST002")},
     quantity : {Num(2)}, unit_price : {Num(10)}, total_amount : {Num(20)},
     region : {Str("North"), Str("South")}]

CleanUserRows ==
    [id : {Num(1), Num(2)}, name : {Str("John Doe"), Str("Jane Smith")},
     username : {Str("johnd")},
     email : {Str("john@example.com"), Str("jane@company.org")},
     phone : {Str("555-1234"), Str("N/A")}, website : {Str("john.com")}]

\* transform_data called on a cleaned frame, as validate_data returns it
InitTransform ==
    /\ pc = "returned"
    /\ source_type \in {"csv", "api"}
    /\ \E cols \in (IF source_type = "csv" THEN {CsvColumns, RequiredCsv}
                    ELSE {ApiColumns, RequiredApi}), k \in 0..MaxCleanRows :
          \E rs \in [1..k -> IF source_type = "csv" THEN CleanSaleRows
                             ELSE CleanUserRows] :
             returned =
                 [columns |-> cols,
                  rows |-> [i \in 1..k |->
                      Project(IF source_type = "csv"
                              THEN With(rs[i], "transaction_id", TxnId(i))
                              ELSE rs[i], cols)]]
    /\ df = returned
    /\ df_validated = returned
    /\ report = NewReport(source_type, returned)
    /\ logs = <<>>
    /\ e = NoExc
    /\ raised = NoExc
    /\ run = 1
    /\ first = returned
    /\ tables = NoTables
    /\ db = NoDatabase
    /\ load = NoLoad
    /\ main = NoMain

SpecTransform == InitTransform /\ [][Transform]_vars

\* ------------------------------------------------ storage/sqlite_loader.py

DimensionTables == {"dim_time", "dim_product", "dim_customer", "dim_user"}

\* the tables create_schema drops and creates
TableNames == DimensionTables \cup {"fact_sales", "pipeline_metadata"}

\* natural_keys.get(table)
NaturalKey(table) ==
    CASE table = "dim_customer" -> "customer_id"
      [] table = "dim_product" -> "product_id"
      [] table = "dim_time" -> "date"
      [] table = "dim_user" -> "id"

\* the columns of the CREATE TABLE statements
TableColumns(table) ==
    CASE table = "dim_time" ->
             {"date_id", "date", "year", "month", "quarter", "day_of_week",
              "month_name", "is_weekend", "created_at"}
      [] table = "dim_product" ->
             {"product_key", "product_id", "product_category", "created_at"}
      [] table = "dim_customer" ->
             {"customer_key", "customer_id", "region", "created_at"}
      [] table = "fact_sales" -> FactColumns \cup {"created_at"}
      [] table = "dim_user" -> UserColumns \cup {"created_at"}
      [] table = "pipeline_metadata" ->
             {"run_id", "run_timestamp", "pipeline_stage", "source_type",
              "records_processed", "status", "error_message",
              "execution_time_seconds"}

\* the columns declared NOT NULL
NotNullColumns(table) ==
    CASE table = "dim_time" ->
             {"date", "year", "month", "quarter", "day_of_week", "month_name"}
      [] table = "dim_product" -> {"product_id", "product_category"}
      [] table = "dim_customer" -> {"customer_id", "region"}
      [] table = "fact_sales" ->
             {"date_id", "product_key", "customer_key", "quantity", "unit_price",
              "revenue", "cost", "profit"}
      [] table = "dim_user" -> {"id", "full_name", "username", "email"}
      [] table = "pipeline_metadata" ->
             {"run_timestamp", "pipeline_stage", "source_type",
              "records_processed", "status"}

\* the columns declared PRIMARY KEY or UNIQUE
UniqueColumns(table) ==
    CASE table = "dim_time" -> {"date_id", "date"}
      [] table = "dim_product" -> {"product_key", "product_id"}
      [] table = "dim_customer" -> {"customer_key", "customer_id"}
      [] table = "fact_sales" -> {"transaction_id"}
      [] table = "dim_user" -> {"user_key", "id"}
      [] table = "pipeline_metadata" -> {"run_id"}

\* the columns under CHECK (column > 0)
CheckedPositive(table) ==
    IF table = "fact_sales" THEN {"quantity", "unit_price"} ELSE {}

\* FOREIGN KEY (column) REFERENCES table(column), enforced by the pragma
ForeignKeys(table) ==
    IF table = "fact_sales"
    THEN {<<"date_id", "dim_time">>, <<"product_key", "dim_product">>,
          <<"customer_key", "dim_customer">>}
    ELSE {}

\* datetime.isoformat(" "), the text a Timestamp is stored as
IsoFormat(c) ==
    LET Pad2(n) == IF n < 10 THEN "0" \o ToString(n) ELSE ToString(n)
    IN  ToString(c.y) \o "-" \o Pad2(c.m) \o "-" \o Pad2(c.d) \o " 00:00:00"

\* a row of a frame as to_sql binds it: Timestamps as text, bools as 0/1
Stored(r) ==
    [c \in DOMAIN r |->
        CASE c = "date" /\ IsDate(r[c]) -> Str(IsoFormat(r[c]))
          [] c = "is_weekend" -> Num(IF r[c] THEN 1 ELSE 0)
          [] OTHER -> r[c]]

OperationalError(what) == [type |-> "OperationalError", msg |-> what]

IntegrityError(constraint, table, column) ==
    [type |-> "IntegrityError", msg |-> "{constraint} failed: {table}.{column}",
     constraint |-> constraint, table |-> table, column |-> column]

\* the cells of column c in the rows
Cells(rows, c) == {rows[i][c] : i \in {i \in 1..Len(rows) : c \in DOMAIN rows[i]}}

\* the constraints of the table that row i of the stored rows s violates when
\* the rows before it went into the persisted tables
Violations(persisted, table, s, i) ==
    LET r == s[i]
        before == persisted[table] \o SubSeq(s, 1, i - 1)
    IN  {<<"NOT NULL constraint", c>> :
            c \in {c \in NotNullColumns(table) : c \notin DOMAIN r \/ r[c] = Null}}
        \cup
        {<<"CHECK constraint", c>> :
            c \in {c \in CheckedPositive(table) \cap DOMAIN r :
                      IsNum(r[c]) /\ r[c].num <= 0}}
        \cup
        {<<"UNIQUE constraint", c>> :
            c \in {c \in UniqueColumns(table) \cap DOMAIN r :
                      r[c] # Null /\ r[c] \in Cells(before, c)}}
        \cup
        {<<"FOREIGN KEY constraint", fk[1]>> :
            fk \in {fk \in ForeignKeys(table) :
                      /\ fk[1] \in DOMAIN r
                      /\ r[fk[1]] # Null
                      /\ r[fk[1]] \notin Cells(persisted[fk[2]], fk[1])}}

\* DataFrame.to_sql(table, conn, if_exists="append", index=False) in one
\* transaction: every row is inserted, or none and the error is raised
ToSql(persisted, table, rows) ==
    LET s == [i \in 1..Len(rows) |-> Stored(rows[i])]
        unknown == {i \in 1..Len(s) : ~(DOMAIN s[i] \subseteq TableColumns(table))}
        failing == {i \in 1..Len(s) : Violations(persisted, table, s, i) # {}}
    IN  IF unknown # {}
        THEN [tables |-> persisted,
              raised |-> OperationalError("table has no column named {column}")]
        ELSE IF failing # {}
        THEN LET i == CHOOSE i \in failing : \A j \in failing : i <= j
                 v == CHOOSE v \in Violations(persisted, table, s, i) : TRUE
             IN  [tables |-> persisted, raised |-> IntegrityError(v[1], table, v[2])]
        ELSE [tables |-> [persisted EXCEPT ![table] = @ \o s], raised |-> NoExc]

\* Series.isin(existing) on one cell: a Timestamp is compared with the dates
\* the stored texts parse to
IsIn(c, existing) ==
    IF IsDate(c) THEN \E x \in existing : ToDatetime(x) = c ELSE c \in existing

\* ContosoDatabase.load_dimension(df, table) on the database d
load_dimension(d, rows, table) ==
    LET key_col == NaturalKey(table)
        existing == Cells(d.tables[table], key_col)
        new == IF rows # <<>> /\ key_col \in DOMAIN rows[1] /\ existing # {}
               THEN KeepRows(rows,
                        {i \in 1..Len(rows) : ~IsIn(rows[i][key_col], existing)})
               ELSE rows
        sql == IF new # <<>> THEN ToSql(d.tables, table, new)
               ELSE [tables |-> d.tables, raised |-> NoExc]
    IN  [db |-> [d EXCEPT !.tables = sql.tables],
         result |-> Len(new), raised |-> sql.raised]

\* ContosoDatabase.load_fact(df, table)
load_fact(d, rows, table) ==
    LET sql == ToSql(d.tables, table, rows)
    IN  [db |-> [d EXCEPT !.tables = sql.tables],
         result |-> Len(rows), raised |-> sql.raised]

\* ContosoDatabase.log_pipeline_run(stage, source, records, status, error)
log_pipeline_run(d, stage, source, records, status, error) ==
    IF d.conn = "None"
    THEN [db |-> d, raised |-> [type |-> "AttributeError",
                                msg |-> "'NoneType' object has no attribute 'cursor'"]]
    ELSE IF "pipeline_metadata" \notin DOMAIN d.tables
    THEN [db |-> d, raised |-> OperationalError("no such table: pipeline_metadata")]
    ELSE [db |-> [d EXCEPT !.tables["pipeline_metadata"] = Append(@,
                    [pipeline_stage |-> stage, source_type |-> source,
                     records_processed |-> records, status |-> status,
                     error_message |-> error])],
          raised |-> NoExc]

\* ContosoDatabase.get_summary_stats()
get_summary_stats(d) ==
    [total_transactions |-> Len(d.tables["fact_sales"]),
     total_products |-> Len(d.tables["dim_product"]),
     total_customers |-> Len(d.tables["dim_customer"]),
     total_users |-> Len(d.tables["dim_user"]),
     total_time_records |-> Len(d.tables["dim_time"])]

\* ---------------------------------------------------- load_to_database steps

\* the statements of the try block of load_to_database, in their order
LoadSteps ==
    <<"connect", "schema", "dim_time", "dim_product", "dim_customer",
      "fact_sales", "log_csv", "dim_user", "log_api", "stats", "export">>

\* the try block with the fact table loaded before the Sales dimensions
FactFirst(step) ==
    CASE step = "connect" -> "schema"
      [] step = "schema" -> "fact_sales"
      [] step = "fact_sales" -> "dim_time"
      [] step = "dim_time" -> "dim_product"
      [] step = "dim_product" -> "dim_customer"
      [] step = "dim_customer" -> "log_csv"
      [] step = "log_csv" -> "dim_user"
      [] step = "dim_user" -> "log_api"
      [] step = "log_api" -> "stats"
      [] step = "stats" -> "export"
      [] OTHER -> "returned"

\* the statement after a step of the try block; return stats after the last
Following(step) ==
    LET at == CHOOSE i \in 1..Len(LoadSteps) : LoadSteps[i] = step
    IN  IF at = Len(LoadSteps) THEN "returned" ELSE LoadSteps[at + 1]

\* load_to_database(csv_transformed, api_transformed): db = ContosoDatabase()
CallLoad(csv_tables, api_tables, n, left) ==
    [pc |-> "connect", csv_transformed |-> csv_tables,
     api_transformed |-> api_tables, counts |-> <<>>, stats |-> <<>>,
     e |-> NoExc, raised |-> NoExc, done |-> <<>>, run |-> n, previous |-> left]

\* the table given to the load of a table
Given(table) ==
    IF table = "dim_user" THEN load.api_transformed[table]
    ELSE load.csv_transformed[table]

\* a statement of the try block completed
Proceeds(d) ==
    /\ db' = d
    /\ load' = [load EXCEPT !.pc = Following(load.pc), !.done = Append(@, load.pc)]

\* a load completed and its count was assigned
Loaded(call) ==
    /\ db' = call.db
    /\ load' = [load EXCEPT !.pc = Following(load.pc),
                            !.done = Append(@, load.pc),
                            !.counts = With(@, load.pc, call.result)]

\* an exception thrown inside the try block reaches the except clause
LoadThrows(exc) ==
    load' = [load EXCEPT !.pc = "except", !.e = exc]

LoadConnect ==
    /\ load.pc = "connect"
    /\ Proceeds([db EXCEPT !.conn = "open"])
    /\ UNCHANGED <<validation, main>>

LoadCreateSchema ==
    /\ load.pc = "schema"
    /\ Proceeds([db EXCEPT !.tables = [t \in TableNames |-> <<>>]])
    /\ UNCHANGED <<validation, main>>

\* count = db.load_dimension(transformed[table], table)
LoadDimension(table) ==
    /\ load.pc = table
    /\ LET call == load_dimension(db, Given(table), table)
       IN  IF call.raised = NoExc
           THEN Loaded(call)
           ELSE db' = call.db /\ LoadThrows(call.raised)
    /\ UNCHANGED <<validation, main>>

LoadDimTime == LoadDimension("dim_time")

LoadDimProduct == LoadDimension("dim_product")

LoadDimCustomer == LoadDimension("dim_customer")

LoadDimUser == LoadDimension("dim_user")

\* fact_sales_count = db.load_fact(csv_transformed['fact_sales'], 'fact_sales')
LoadFactSales ==
    /\ load.pc = "fact_sales"
    /\ LET call == load_fact(db, Given("fact_sales"), "fact_sales")
       IN  IF call.raised = NoExc
           THEN Loaded(call)
           ELSE db' = call.db /\ LoadThrows(call.raised)
    /\ UNCHANGED <<validation, main>>

\* db.log_pipeline_run('LOAD', source, count, 'SUCCESS', exec_time=...)
LogRun(step, source, table) ==
    /\ load.pc = step
    /\ LET call == log_pipeline_run(db, "LOAD", source, load.counts[table],
                                    "SUCCESS", Null)
       IN  IF call.raised = NoExc
           THEN Proceeds(call.db)
           ELSE db' = call.db /\ LoadThrows(call.raised)
    /\ UNCHANGED <<validation, main>>

LogCsvRun == LogRun("log_csv", "CSV", "fact_sales")

LogApiRun == LogRun("log_api", "API", "dim_user")

\* stats = db.get_summary_stats(); regions = db.get_sales_by_region()
SummaryStats ==
    /\ load.pc = "stats"
    /\ db' = db
    /\ load' = [load EXCEPT !.pc = Following(load.pc), !.done = Append(@, load.pc),
                            !.stats = get_summary_stats(db)]
    /\ UNCHANGED <<validation, main>>

\* export_database_summary(stats); return stats; finally: db.close()
ExportDatabaseSummary ==
    /\ load.pc = "export"
    /\ Proceeds([db EXCEPT !.conn = "closed"])
    /\ UNCHANGED <<validation, main>>

\* the database file or the site directory fails the running statement; a
\* create_schema that fails has dropped no table yet or every table
LoadFault ==
    /\ load.pc \in {LoadSteps[i] : i \in 1..Len(LoadSteps)}
    /\ db' \in IF load.pc = "schema"
               THEN {db, [db EXCEPT !.tables = <<>>]}
               ELSE {db}
    /\ LoadThrows(OperationalError(load.pc))
    /\ UNCHANGED <<validation, main>>

LoadFailed(cause) ==
    [type |-> "Exception", msg |-> "Database loading failed: {str(e)}",
     cause |-> cause]

\* finally: db.close()
Closed(d) == IF d.conn = "open" THEN [d EXCEPT !.conn = "closed"] ELSE d

\* except Exception as e: db.log_pipeline_run('LOAD', 'ERROR', 0, 'FAILED',
\* str(e)); raise Exception(...), with log_pipeline_run raising in its turn
\* when there is no connection or no pipeline_metadata table
LoadExceptClause ==
    /\ load.pc = "except"
    /\ LET call == log_pipeline_run(db, "LOAD", "ERROR", 0, "FAILED", Str(load.e.msg))
       IN  /\ db' = Closed(call.db)
           /\ load' = [load EXCEPT
                  !.pc = "raised",
                  !.raised = IF call.raised = NoExc THEN LoadFailed(load.e)
                             ELSE DuringHandling(call.raised, load.e)]
    /\ UNCHANGED <<validation, main>>

\* the same, the database file failing the INSERT of the except clause
LoadExceptClauseFault ==
    /\ load.pc = "except"
    /\ db.conn = "open"
    /\ "pipeline_metadata" \in DOMAIN db.tables
    /\ db' = Closed(db)
    /\ load' = [load EXCEPT
           !.pc = "raised",
           !.raised = DuringHandling(OperationalError("log_pipeline_run"), load.e)]
    /\ UNCHANGED <<validation, main>>

\* the whole load, having returned, is run again on the same transformed
\* tables
LoadAgain ==
    /\ load.pc = "returned"
    /\ load.run = 1
    /\ db' = [db EXCEPT !.conn = "None"]
    /\ load' = CallLoad(load.csv_transformed, load.api_transformed, 2, db.tables)
    /\ UNCHANGED <<validation, main>>

\* load_to_database while the database file and the site directory work
Load ==
    \/ LoadConnect
    \/ LoadCreateSchema
    \/ LoadDimTime
    \/ LoadDimProduct
    \/ LoadDimCustomer
    \/ LoadFactSales
    \/ LogCsvRun
    \/ LoadDimUser
    \/ LogApiRun
    \/ SummaryStats
    \/ ExportDatabaseSummary
    \/ LoadExceptClause

LoadFaults ==
    \/ LoadFault
    \/ LoadExceptClauseFault

\* most rows of a cleaned frame whose tables are given to load_to_database
MaxLoadRows == 2

\* the cleaned Sales rows of a load, without their transaction_id
LoadSaleRows ==
    [date : {Date(2025, 1, 1)}, product_id : {Str("PROD001")},
     customer_id : {Str("CUST001"), Str("CUST002")},
     quantity : {Num(2)}, unit_price : {Num(10)}, total_amount : {Num(20)},
     region : {Str("North"), Str("South"), Null}]

\* the cleaned UserProfile rows of a load
LoadUserRows ==
    [id : {Num(1), Num(2)}, name : {Str("John Doe")}, username : {Str("johnd")},
     email : {Str("john@example.com")}, phone : {Str("N/A")},
     website : {Str("john.com")}]

\* no validate_data call is running
ValidationIdle ==
    /\ pc = "idle"
    /\ source_type = "csv"
    /\ df = NoFrame
    /\ df_validated = NoFrame
    /\ report = NewReport("csv", [columns |-> {}, rows |-> <<>>])
    /\ logs = <<>>
    /\ returned = NoFrame
    /\ e = NoExc
    /\ raised = NoExc
    /\ run = 1
    /\ first = NoFrame
    /\ tables = NoTables

\* load_to_database called on the tables transform_data made of two cleaned
\* frames, the database file not existing yet
InitLoad ==
    /\ ValidationIdle
    /\ main = NoMain
    /\ db = [conn |-> "None", tables |-> <<>>]
    /\ \E k \in 0..MaxLoadRows, l \in 0..MaxLoadRows :
          \E rs \in [1..k -> LoadSaleRows], us \in [1..l -> LoadUserRows] :
             load = CallLoad(
                        transform_data([columns |-> CsvColumns,
                            rows |-> [i \in 1..k |->
                                With(rs[i], "transaction_id", TxnId(i))]], "csv"),
                        transform_data([columns |-> ApiColumns, rows |-> us], "api"),
                        1, NoLoad)

NextLoad ==
    \/ Load
    \/ LoadFaults
    \/ LoadAgain

SpecLoad == InitLoad /\ [][NextLoad]_vars

\* ------------------------------------------------------- run_pipeline.py

\* the stage calls of the try block of main, in their order
MainSteps ==
    <<"ingest_csv", "ingest_api", "validate_csv", "validate_api",
      "transform_csv", "transform_api", "load">>

\* the try block with the validation stage handling UserProfile before Sales
ApiValidatedFirst(step) ==
    CASE step = "ingest_csv" -> "ingest_api"
      [] step = "ingest_api" -> "validate_api"
      [] step = "validate_api" -> "validate_csv"
      [] step = "validate_csv" -> "transform_csv"
      [] step = "transform_csv" -> "transform_api"
      [] step = "transform_api" -> "load"
      [] OTHER -> "return"

\* the statement after a stage call of the try block; return 0 after the last
Then(step) ==
    LET at == CHOOSE i \in 1..Len(MainSteps) : MainSteps[i] = step
    IN  IF at = Len(MainSteps) THEN "return" ELSE MainSteps[at + 1]

KindOf(step) ==
    IF step \in {"ingest_csv", "validate_csv", "transform_csv"} THEN "csv" ELSE "api"

\* the local variable of main a stage call assigns
Assigns(step) ==
    CASE step = "ingest_csv" -> "csv_data"
      [] step = "ingest_api" -> "api_data"
      [] step = "validate_csv" -> "validated_csv"
      [] step = "validate_api" -> "validated_api"
      [] step = "transform_csv" -> "transformed_csv"
      [] step = "transform_api" -> "transformed_api"
      [] step = "load" -> "stats"

\* the local variable of main a validate or transform call is given
Takes(step) ==
    CASE step = "validate_csv" -> "csv_data"
      [] step = "validate_api" -> "api_data"
      [] step = "transform_csv" -> "validated_csv"
      [] step = "transform_api" -> "validated_api"

\* log_ingestion(source_type, status, record_count, error)
IngestionEntry(source, status, record_count, error) ==
    [source_type |-> source, status |-> status, record_count |-> record_count,
     error |-> error]

IngestionFailed(kind) ==
    [type |-> "Exception", msg |-> "{source} ingestion failed: {str(e)}",
     source_type |-> kind, cause |-> IOError("cannot ingest")]

\* a stage call of main starts
Starts == [main EXCEPT !.started = Append(@, main.pc), !.calling = TRUE]

\* the running stage call returned the value
Returns(m, value) ==
    [m EXCEPT ![Assigns(main.pc)] = value, !.pc = Then(main.pc), !.calling = FALSE,
              !.succeeded = Append(@, main.pc)]

\* the running stage call raised: control reaches the except clause of main
Raises(m, exc) == [m EXCEPT !.pc = "except", !.calling = FALSE, !.e = exc]

\* most rows of a frame ingest_csv or ingest_api returns to main
MaxIngested == 2

\* the rows of the Sales frames ingest_csv hands to main
IngestedSaleRows ==
    [date : {Str("2025-01-01")}, product_id : {Str("PROD001")},
     customer_id : {Str("CUST001"), Str("CUST002")},
     quantity : {Num(2)}, unit_price : {Num(10)}, total_amount : {Num(20)},
     region : {Str("North"), Str("South")}]

\* the rows of the UserProfile frames ingest_api hands to main
IngestedUserRows ==
    {BaseUser(Num(1)), BaseUser(Str("01")),
     Vary(BaseUser(Num(1)), <<"email", Str("invalid-email")>>)}

\* the columns of the frames an ingest call hands to main
IngestedColumns(kind) ==
    IF kind = "csv" THEN {CsvColumns, RequiredCsv}
    ELSE {ApiColumns, ApiColumns \ {"email"}}

\* csv_data = ingest_csv(); api_data = ingest_api(), the ingestion logged
IngestReturned ==
    /\ main.pc \in {"ingest_csv", "ingest_api"}
    /\ \E k \in 0..MaxIngested, cols \in IngestedColumns(KindOf(main.pc)) :
          \E rs \in [1..k -> IF KindOf(main.pc) = "csv" THEN IngestedSaleRows
                             ELSE IngestedUserRows] :
             LET f == [columns |-> cols,
                       rows |-> [i \in 1..k |->
                           Project(IF KindOf(main.pc) = "csv"
                                   THEN With(rs[i], "transaction_id", TxnId(i))
                                   ELSE rs[i], cols)]]
             IN  main' = [Returns(Starts, f) EXCEPT
                     !.ingestion_log = Append(@,
                         IngestionEntry(KindOf(main.pc), "SUCCESS", Len(f.rows), Null))]
    /\ UNCHANGED <<validation, db, load>>

\* the ingest call logs its failure and raises
IngestRaised ==
    /\ main.pc \in {"ingest_csv", "ingest_api"}
    /\ main' = [Raises(Starts, IngestionFailed(KindOf(main.pc))) EXCEPT
            !.ingestion_log = Append(@,
                IngestionEntry(KindOf(main.pc), "FAILED", 0, Str("cannot ingest")))]
    /\ UNCHANGED <<validation, db, load>>

\* validated = validate_data(data, kind) is called
ValidateCalled ==
    /\ main.pc \in {"validate_csv", "validate_api"}
    /\ ~main.calling
    /\ Call(main[Takes(main.pc)], KindOf(main.pc), 1)
    /\ main' = Starts
    /\ UNCHANGED <<logs, first, tables, db, load>>

ValidateReturned ==
    /\ main.pc \in {"validate_csv", "validate_api"}
    /\ main.calling
    /\ pc = "returned"
    /\ main' = Returns(main, returned)
    /\ UNCHANGED <<validation, db, load>>

ValidateRaised ==
    /\ main.pc \in {"validate_csv", "validate_api"}
    /\ main.calling
    /\ pc = "raised"
    /\ main' = Raises(main, raised)
    /\ UNCHANGED <<validation, db, load>>

\* transformed = transform_data(validated, kind), tables saved
TransformReturned ==
    /\ main.pc \in {"transform_csv", "transform_api"}
    /\ MissingInput(main[Takes(main.pc)], KindOf(main.pc)) = {}
    /\ main' = Returns(Starts, transform_data(main[Takes(main.pc)], KindOf(main.pc)))
    /\ UNCHANGED <<validation, db, load>>

\* the transform selects a column its input lacks
TransformRaisedKeyError ==
    /\ main.pc \in {"transform_csv", "transform_api"}
    /\ MissingInput(main[Takes(main.pc)], KindOf(main.pc)) # {}
    /\ main' = Raises(Starts,
           KeyError(CHOOSE c \in MissingInput(main[Takes(main.pc)], KindOf(main.pc)) :
                        TRUE))
    /\ UNCHANGED <<validation, db, load>>

\* save_transformed_data cannot write a table
TransformRaisedOnSave ==
    /\ main.pc \in {"transform_csv", "transform_api"}
    /\ MissingInput(main[Takes(main.pc)], KindOf(main.pc)) = {}
    /\ main' = Raises(Starts, IOError("cannot write the transformed table"))
    /\ UNCHANGED <<validation, db, load>>

\* stats = load_to_database(transformed_csv, transformed_api) is called
LoadCalled ==
    /\ main.pc = "load"
    /\ ~main.calling
    /\ load' = CallLoad(main.transformed_csv, main.transformed_api, 1, NoLoad)
    /\ db' = [db EXCEPT !.conn = "None"]
    /\ main' = Starts
    /\ UNCHANGED validation

\* print_footer(start_time); return 0
LoadReturned ==
    /\ main.pc = "load"
    /\ main.calling
    /\ load.pc = "returned"
    /\ main' = [Returns(main, load.stats) EXCEPT !.exit_code = 0]
    /\ UNCHANGED <<validation, db, load>>

LoadRaised ==
    /\ main.pc = "load"
    /\ main.calling
    /\ load.pc = "raised"
    /\ main' = Raises(main, load.raised)
    /\ UNCHANGED <<validation, db, load>>

\* except Exception as e: print(...); traceback.print_exc(); return 1
MainExcept ==
    /\ main.pc = "except"
    /\ main' = [main EXCEPT !.pc = "return", !.exit_code = 1]
    /\ UNCHANGED <<validation, db, load>>

\* no load_to_database call is running
LoadIdle == [pc |-> "idle"]

\* main() starts with no log, no report and no database file written
InitMain ==
    /\ ValidationIdle
    /\ db = [conn |-> "None", tables |-> <<>>]
    /\ load = LoadIdle
    /\ main = [pc |-> "ingest_csv", calling |-> FALSE,
               csv_data |-> NoFrame, api_data |-> NoFrame,
               validated_csv |-> NoFrame, validated_api |-> NoFrame,
               transformed_csv |-> NoTables, transformed_api |-> NoTables,
               stats |-> <<>>, started |-> <<>>, succeeded |-> <<>>,
               ingestion_log |-> <<>>, e |-> NoExc, exit_code |-> -1]

Main ==
    \/ IngestReturned
    \/ IngestRaised
    \/ ValidateCalled
    \/ ValidateReturned
    \/ ValidateRaised
    \/ TransformReturned
    \/ TransformRaisedKeyError
    \/ TransformRaisedOnSave
    \/ LoadCalled
    \/ LoadReturned
    \/ LoadRaised
    \/ MainExcept

\* main() while LOGS_DIR can be written
NextMain ==
    \/ Main
    \/ Validate
    \/ Load
    \/ LoadFaults

SpecMain == InitMain /\ [][NextMain]_vars

\* ------------------------------------------------------------- properties

\* the values the column c takes in the rows
Values(rows, c) == {rows[i][c] : i \in 1..Len(rows)}

\* the rows holding v in column c
Holding(rows, c, v) == {i \in 1..Len(rows) : rows[i][c] = v}

Earlier(a, b) ==
    \/ a.y < b.y
    \/ a.y = b.y /\ a.m < b.m
    \/ a.y = b.y /\ a.m = b.m /\ a.d < b.d

SalesTransformed == pc = "transformed" /\ source_type = "csv"

\* C1: the Customer dimension of a Sales transform holds exactly one row per
\* distinct customer_id of the cleaned record set, and that row carries the
\* region of the customer's earliest-dated transaction.
C1_OneCustomerRowEarliestRegion ==
    SalesTransformed =>
        LET clean == returned.rows
            dim == tables.dim_customer
        IN  /\ Values(dim, "customer_id") = Values(clean, "customer_id")
            /\ \A c \in Values(clean, "customer_id") :
                  /\ Cardinality(Holding(dim, "customer_id", c)) = 1
                  /\ \A k \in Holding(dim, "customer_id", c) :
                        \E i \in Holding(clean, "customer_id", c) :
                           /\ dim[k]["region"] = clean[i]["region"]
                           /\ \A j \in Holding(clean, "customer_id", c) :
                                 ~Earlier(clean[j]["date"], clean[i]["date"])

\* the surrogate keys of dim are pairwise distinct, are exactly 1..n, and n is
\* the number of distinct values of the natural key in the cleaned rows
KeysContiguous(dim, key, clean, natural) ==
    /\ \A i, j \in 1..Len(dim) : i # j => dim[i][key] # dim[j][key]
    /\ Values(dim, key) = {Num(k) : k \in 1..Len(dim)}
    /\ Len(dim) = Cardinality(Values(clean, natural))

\* C2: in every dimension table of one transform call the surrogate keys are
\* pairwise distinct, form the range 1..n, and n is the number of distinct
\* natural-key values of the input record set.
C2_SurrogateKeysContiguous ==
    pc = "transformed" =>
        IF source_type = "csv"
        THEN /\ KeysContiguous(tables.dim_time, "date_id", returned.rows, "date")
             /\ KeysContiguous(tables.dim_product, "product_key", returned.rows,
                               "product_id")
             /\ KeysContiguous(tables.dim_customer, "customer_key", returned.rows,
                               "customer_id")
        ELSE KeysContiguous(tables.dim_user, "user_key", returned.rows, "id")

\* C3: the Sales fact table has exactly one row per row of the cleaned record
\* set: as many rows, and every transaction_id in exactly one fact row.
C3_OneFactRowPerCleanRow ==
    SalesTransformed =>
        /\ Len(tables.fact_sales) = Len(returned.rows)
        /\ \A t \in Values(returned.rows, "transaction_id") :
              Cardinality(Holding(tables.fact_sales, "transaction_id", t)) = 1

\* the fact row's key is not null and every dimension row with that surrogate
\* key (there is one) carries the natural key of the cleaned row
Resolves(fact, key, dim, natural, clean) ==
    /\ fact[key] # Null
    /\ Holding(dim, key, fact[key]) # {}
    /\ \A k \in Holding(dim, key, fact[key]) : dim[k][natural] = clean[natural]

\* C4: every fact row's date_id, product_key and customer_key is non-null and
\* is the surrogate key of a row of the dimension table of the same call, and
\* that row carries the date, product_id and customer_id of the fact row's
\* transaction.
C4_FactKeysResolve ==
    SalesTransformed =>
        \A n \in 1..Len(tables.fact_sales) :
            LET fact == tables.fact_sales[n]
                own == Holding(returned.rows, "transaction_id",
                               fact["transaction_id"])
            IN  /\ own # {}
                /\ \A i \in own :
                      /\ Resolves(fact, "date_id", tables.dim_time, "date",
                                  returned.rows[i])
                      /\ Resolves(fact, "product_key", tables.dim_product,
                                  "product_id", returned.rows[i])
                      /\ Resolves(fact, "customer_key", tables.dim_customer,
                                  "customer_id", returned.rows[i])

\* a Sales transform of three transactions on two dates whose customer occurs
\* with two regions
C4_Witness ==
    /\ SalesTransformed
    /\ Len(tables.fact_sales) > 2
    /\ Cardinality(Values(tables.fact_sales, "date_id")) = 2
    /\ Cardinality(Values(tables.fact_sales, "customer_key")) = 2
    /\ Cardinality(Values(returned.rows, "customer_id")) = 1

\* C5: after validate then transform of a Sales record set every fact row has
\* revenue = quantity * unit_price, cost = 0.6 * revenue and
\* profit = revenue - cost.
C5_FactFinancials ==
    SalesTransformed =>
        \A n \in 1..Len(tables.fact_sales) :
            LET fact == tables.fact_sales[n]
            IN  /\ fact["revenue"].num = fact["quantity"].num * fact["unit_price"].num
                /\ 10 * fact["cost"].num = 6 * fact["revenue"].num
                /\ fact["profit"].num = fact["revenue"].num - fact["cost"].num

\* a fact row whose ingested total_amount differed from quantity * unit_price
C5_Witness ==
    /\ SalesTransformed
    /\ run = 1
    /\ \E n \in 1..Len(tables.fact_sales) : \E i \in 1..Len(df.rows) :
          /\ df.rows[i]["transaction_id"] = tables.fact_sales[n]["transaction_id"]
          /\ df.rows[i]["total_amount"] = Num(999)
          /\ df.rows[i]["quantity"] = Str("3")
          /\ tables.fact_sales[n]["revenue"] = Num(30)

\* the removal counts the report's check entries and warnings state
RemovalCounts(r) ==
    {r.checks[i].details.removed :
        i \in {i \in 1..Len(r.checks) : "removed" \in DOMAIN r.checks[i].details}}
    \cup
    {r.warnings[i].removed :
        i \in {i \in 1..Len(r.warnings) : "removed" \in DOMAIN r.warnings[i]}}

\* C6: validating the cleaned output of a successful validate call again with
\* the same kind succeeds, removes no row at any check and returns the same
\* rows in the same order.
C6_RevalidationIdempotent ==
    run = 2 =>
        /\ pc = "except" => e.type = "OSError"
        /\ RemovalCounts(report) \subseteq {0}
        /\ pc \in {"save", "export", "returned"} => df_validated = first
        /\ pc = "returned" => returned = first

LastCheck(r) == r.checks[Len(r.checks)]

\* C7: deduplication of N rows holding K distinct primary identifiers yields
\* exactly K rows, each the first occurrence of its identifier, in the original
\* relative order, and the Deduplication entry records N - K rows removed.
C7_DeduplicationKeepsFirst ==
    [][pc = "dedup" =>
        LET key == PrimaryKey(source_type)
            before == df_validated.rows
            after == df_validated'.rows
            K == Cardinality(Values(before, key))
            firstAt(v) == CHOOSE i \in Holding(before, key, v) :
                              \A j \in Holding(before, key, v) : i <= j
        IN  /\ Len(after) = K
            /\ \A k \in 1..Len(after) : after[k] = before[firstAt(after[k][key])]
            /\ \A k, l \in 1..Len(after) :
                  k < l => firstAt(after[k][key]) < firstAt(after[l][key])
            /\ LastCheck(report').check = "Deduplication"
            /\ LastCheck(report').details.removed = Len(before) - K]_vars

\* the deduplication has just removed the second of two different rows that
\* share their identifier
C7_Witness ==
    /\ pc = "types"
    /\ run = 1
    /\ Len(df.rows) = 2
    /\ df.rows[1] # df.rows[2]
    /\ df_validated.rows = <<df.rows[1]>>
    /\ LastCheck(report).details.removed = 1

\* the rows of a Sales frame with a non-positive quantity or unit price
NonPositive(rows) ==
    {i \in 1..Len(rows) :
        ~(rows[i]["quantity"].num > 0 /\ rows[i]["unit_price"].num > 0)}

\* C8: every row a successful Sales validation returns has quantity > 0,
\* unit_price > 0 and total_amount = quantity * unit_price, whatever total the
\* input carried, and the Business Rules entry states the number of rows
\* removed for a non-positive quantity or unit price.
C8_BusinessRules ==
    /\ []((pc = "returned" /\ source_type = "csv") =>
            \A i \in 1..Len(returned.rows) :
                LET r == returned.rows[i]
                IN  /\ r["quantity"].num > 0
                    /\ r["unit_price"].num > 0
                    /\ r["total_amount"].num = r["quantity"].num * r["unit_price"].num)
    /\ [][(pc = "rules" /\ source_type = "csv") =>
            /\ LastCheck(report').check = "Business Rules"
            /\ LastCheck(report').details.removed =
                   Cardinality(NonPositive(df_validated.rows))]_vars

\* a Sales validation returned a row whose total was recomputed, after the
\* business rules removed another row
C8_Witness ==
    /\ pc = "returned"
    /\ source_type = "csv"
    /\ run = 1
    /\ Len(returned.rows) = 1
    /\ returned.rows[1]["total_amount"] = Num(20)
    /\ \A i \in 1..Len(df.rows) : df.rows[i]["total_amount"] = Num(999)
    /\ LastCheck(report).details.removed = 1

\* the report files the running call wrote (a re-validation starts after the
\* first call wrote its one file)
SavedByCall == SubSeq(logs, run, Len(logs))

\* C9: with a required column missing validate fails at the schema check: it
\* returns no record set, runs no later check, records the failure in the
\* report's errors, the persisted report has status FAILED, and the error
\* raised carries the original cause.
C9_SchemaFailureIsFatal ==
    MissingColumns(df, source_type) # {} =>
        LET cause == SchemaError(MissingColumns(df, source_type))
        IN  /\ pc \in {"schema", "except", "raised"}
            /\ returned = NoFrame
            /\ df_validated = df
            /\ report.checks = <<>>
            /\ report.warnings = <<>>
            /\ pc = "except" => e = cause
            /\ pc = "raised" =>
                  /\ report.errors = <<cause>>
                  /\ raised.cause = cause
                  /\ Len(SavedByCall) <= 1
                  /\ \A i \in 1..Len(SavedByCall) :
                        /\ SavedByCall[i].status = "FAILED"
                        /\ SavedByCall[i].checks = <<>>
                        /\ SavedByCall[i].errors = <<cause>>

\* validate raised after the schema check missed a column, the FAILED report
\* written
C9_Witness ==
    /\ pc = "raised"
    /\ MissingColumns(df, source_type) # {}
    /\ Len(df.rows) > 0
    /\ Len(logs) = 1
    /\ logs[1].status = "FAILED"
    /\ raised.type = "Exception"

\* C10: on every exit path of a validate call the validation report is
\* persisted exactly once and is not modified after it was persisted.
C10_PersistedExactlyOnce ==
    pc \in {"returned", "raised"} =>
        /\ Len(SavedByCall) = 1
        /\ SavedByCall[1] = ReportDict(report)

\* the names of the check entries of a report, in the order they were appended
CheckNames(r) == [i \in 1..Len(r.checks) |-> r.checks[i].check]

\* the fixed order of the checks; the null audit names its entry after what
\* it found
CheckOrder(names) ==
    /\ Len(names) <= 5
    /\ \A i \in 1..Len(names) :
          names[i] \in (CASE i = 1 -> {"Schema Validation"}
                          [] i = 2 -> {"Null Check", "Null Handling"}
                          [] i = 3 -> {"Deduplication"}
                          [] i = 4 -> {"Type Enforcement"}
                          [] OTHER -> {"Business Rules"})

\* the number of checks that ran before validate_data reached a position
ChecksBefore(at) ==
    CASE at = "schema" -> {0}
      [] at = "nulls" -> {1}
      [] at = "dedup" -> {2}
      [] at = "types" -> {3}
      [] at = "rules" -> {4}
      [] at \in {"save", "export", "returned"} -> {5}
      [] OTHER -> 0..5

\* C11: a validate call appends exactly one check entry per check in the
\* fixed order schema, null audit, deduplication, type enforcement, business
\* rules: a check runs only when every earlier one has appended its entry, and
\* the report a successful call persisted holds the five entries in that order.
C11_ChecksInFixedOrder ==
    /\ CheckOrder(CheckNames(report))
    /\ Len(report.checks) \in ChecksBefore(pc)
    /\ pc \in {"export", "returned"} =>
          /\ Len(SavedByCall) = 1
          /\ Len(SavedByCall[1].checks) = 5
          /\ CheckOrder(CheckNames(SavedByCall[1]))
          /\ SavedByCall[1].status = "PASSED"

\* a validate call returned after every check removed or repaired something,
\* its persisted report holding the five entries
C11_Witness ==
    /\ pc = "returned"
    /\ run = 1
    /\ Len(logs) = 1
    /\ CheckNames(logs[1]) = <<"Schema Validation", "Null Handling",
                               "Deduplication", "Type Enforcement",
                               "Business Rules">>
    /\ Len(returned.rows) < Len(df.rows)

\* the sum of the removal counts the check entries of a report state
RECURSIVE SumRemoved(_)
SumRemoved(checks) ==
    IF checks = <<>> THEN 0
    ELSE (IF "removed" \in DOMAIN Head(checks).details
          THEN Head(checks).details.removed ELSE 0) + SumRemoved(Tail(checks))

\* the entries of the checks that can remove rows: the null handling of a
\* Sales frame, and for both kinds the deduplication, the type enforcement and
\* the business rules
RemovingChecks(kind) ==
    (IF kind = "csv" THEN {"Null Handling"} ELSE {})
    \cup {"Deduplication", "Type Enforcement", "Business Rules"}

\* C12: for both kinds the report entry of every check that can remove rows
\* records the number of rows the check removed, also when that number is
\* zero (so the recorded numbers add up to the rows removed so far).
C12_RemovalCountsRecorded ==
    pc \in {"nulls", "dedup", "types", "rules", "save", "export", "returned"} =>
        /\ \A i \in 1..Len(report.checks) :
              report.checks[i].check \in RemovingChecks(source_type) =>
                  "removed" \in DOMAIN report.checks[i].details
        /\ SumRemoved(report.checks) =
               report.initial_count - Len(df_validated.rows)

\* C13: a successful Sales validation returns no row with a null
\* transaction_id, product_id or customer_id; a UserProfile validation removes
\* no row at the null audit, replaces every null phone or website by "N/A"
\* there and returns no row with a null phone or website.
C13_NullHandling ==
    /\ [](pc = "returned" =>
            \A i \in 1..Len(returned.rows) :
                \A c \in (IF source_type = "csv" THEN NullKeyColumns
                          ELSE {"phone", "website"} \cap returned.columns) :
                    returned.rows[i][c] # Null)
    /\ [][(pc = "nulls" /\ source_type = "api") =>
            LET before == df_validated.rows
                after == df_validated'.rows
            IN  /\ Len(after) = Len(before)
                /\ \A i \in 1..Len(before) : \A c \in df_validated.columns :
                      after[i][c] = IF c \in {"phone", "website"} /\ before[i][c] = Null
                                    THEN Str("N/A") ELSE before[i][c]]_vars

\* a UserProfile validation returned both rows of its input, the null phone of
\* the first and the null website of the second replaced by "N/A"
C13_Witness ==
    /\ pc = "returned"
    /\ source_type = "api"
    /\ run = 1
    /\ {"phone", "website"} \subseteq df.columns
    /\ Len(df.rows) = 2
    /\ Len(returned.rows) = 2
    /\ df.rows[1]["phone"] = Null
    /\ returned.rows[1]["phone"] = Str("N/A")
    /\ df.rows[2]["website"] = Null
    /\ returned.rows[2]["website"] = Str("N/A")

\* the positions of the rows of a raw frame that reach the deduplication: the
\* null handling removed the Sales rows with a null key column
ReachDedup(f, kind) ==
    {i \in 1..Len(f.rows) :
        kind = "csv" => \A c \in NullKeyColumns : f.rows[i][c] # Null}

\* a raw row that neither the type enforcement nor a business rule removes
PassesTypesAndRules(r, kind) ==
    IF kind = "csv"
    THEN /\ ToDatetime(r["date"]) # Null
         /\ \A c \in {"quantity", "unit_price", "total_amount"} : ToNumeric(r[c]) # Null
         /\ ToNumeric(r["quantity"]).num > 0
         /\ ToNumeric(r["unit_price"]).num > 0
    ELSE ToNumeric(r["id"]) # Null /\ ContainsAt(r["email"])

\* the first occurrence of its primary identifier among the rows that reach
\* the deduplication
FirstOfIdentifier(f, kind, i) ==
    /\ i \in ReachDedup(f, kind)
    /\ \A j \in ReachDedup(f, kind) :
          j < i => f.rows[j][PrimaryKey(kind)] # f.rows[i][PrimaryKey(kind)]

\* what a raw row looks like in the validated output when it is kept
Cleaned(r, kind) ==
    IF kind = "csv"
    THEN [c \in DOMAIN r |->
            CASE c = "date" -> ToDatetime(r[c])
              [] c \in {"quantity", "unit_price"} -> ToNumeric(r[c])
              [] c = "total_amount" ->
                   Num(ToNumeric(r["quantity"]).num * ToNumeric(r["unit_price"]).num)
              [] OTHER -> r[c]]
    ELSE [c \in DOMAIN r |->
            CASE c = "id" -> ToNumeric(r[c])
              [] c \in {"phone", "website"} /\ r[c] = Null -> Str("N/A")
              [] OTHER -> r[c]]

\* the raw rows whose identifier the cleaning drops altogether: its first
\* occurrence fails the type enforcement or a business rule
LostIdentifiers(f, kind) ==
    {f.rows[i][PrimaryKey(kind)] :
        i \in {i \in 1..Len(f.rows) :
                  FirstOfIdentifier(f, kind, i)
                  /\ ~PassesTypesAndRules(f.rows[i], kind)}}

DimensionRows(persisted) ==
    [t \in DimensionTables \cap DOMAIN persisted |-> persisted[t]]

\* C14: load_dimension inserts exactly the rows of the given table whose
\* natural key is not yet in the persisted table and returns their number
\* (whenever the database file works); loading a loaded dimension table again
\* inserts no row and leaves the persisted table as it is; and a re-run of
\* the whole load ends with the persisted dimension rows of the first run.
C14_LoadDimensionIdempotent ==
    /\ [][(load.pc \in DimensionTables /\ load'.e # OperationalError(load.pc)) =>
            LET table == load.pc
                key == NaturalKey(table)
                rows == Given(table)
                new == {i \in 1..Len(rows) :
                           \A j \in 1..Len(db.tables[table]) :
                               db.tables[table][j][key] # Stored(rows[i])[key]}
                inserted == KeepRows(rows, new)
            IN  /\ load'.pc # "except"
                /\ db'.tables[table] =
                       db.tables[table]
                           \o [k \in 1..Len(inserted) |-> Stored(inserted[k])]
                /\ load'.counts[table] = Cardinality(new)]_vars
    /\ [](load # NoLoad =>
            \A table \in DimensionTables :
                (table \in DOMAIN load.counts /\ db.conn = "open") =>
                    LET again == load_dimension(db, Given(table), table)
                    IN  /\ again.raised = NoExc
                        /\ again.result = 0
                        /\ again.db = db)
    /\ []((load # NoLoad /\ load.run = 2 /\ load.pc = "returned") =>
            DimensionRows(db.tables) = DimensionRows(load.previous))

\* the pipeline_metadata rows with status FAILED that carry the message
FailedRuns(persisted, message) ==
    IF "pipeline_metadata" \in DOMAIN persisted
    THEN {i \in 1..Len(persisted["pipeline_metadata"]) :
             /\ persisted["pipeline_metadata"][i].status = "FAILED"
             /\ persisted["pipeline_metadata"][i].error_message = Str(message)}
    ELSE {}

\* C15: whenever load_to_database fails at any step (connecting, creating the
\* schema, loading a dimension or the fact table, writing an audit row,
\* computing the statistics), a pipeline_metadata row with status FAILED and
\* the causing message is recorded before the error is re-raised.
C15_LoadFailureRecorded ==
    (load # NoLoad /\ load.pc = "raised") =>
        /\ FailedRuns(db.tables, load.e.msg) # {}
        /\ load.raised = LoadFailed(load.e)

\* the steps of the try block the running load_to_database call completed
Done == {load.done[i] : i \in 1..Len(load.done)}

\* the rows of the given table as they are persisted
StoredRows(table) == [i \in 1..Len(Given(table)) |-> Stored(Given(table)[i])]

\* the audit row of a successful load
SuccessRow(source, table) ==
    [pipeline_stage |-> "LOAD", source_type |-> source,
     records_processed |-> Len(Given(table)), status |-> "SUCCESS",
     error_message |-> Null]

\* C18: in load_to_database the schema is created before any insert; dim_time,
\* dim_product and dim_customer are all loaded before fact_sales; the LOAD/CSV
\* audit row is written only after fact_sales was loaded, and dim_user and its
\* LOAD/API audit row after that; when a step fails none of the later steps
\* runs, while the tables the earlier steps inserted stay persisted.
C18_LoadOrder ==
    load # NoLoad =>
        /\ load.pc \in DimensionTables \cup {"fact_sales"} => "schema" \in Done
        /\ load.pc = "fact_sales" =>
              {"dim_time", "dim_product", "dim_customer"} \subseteq Done
        /\ load.pc = "log_csv" => "fact_sales" \in Done
        /\ load.pc = "dim_user" => "log_csv" \in Done
        /\ load.pc = "log_api" => "dim_user" \in Done
        /\ "schema" \in Done =>
              /\ \A table \in DimensionTables \cup {"fact_sales"} :
                    db.tables[table] =
                        IF table \in Done THEN StoredRows(table) ELSE <<>>
              /\ SubSeq(db.tables["pipeline_metadata"], 1,
                        Cardinality(Done \cap {"log_csv", "log_api"})) =
                    (IF "log_csv" \in Done
                     THEN <<SuccessRow("CSV", "fact_sales")>> ELSE <<>>)
                    \o (IF "log_api" \in Done
                        THEN <<SuccessRow("API", "dim_user")>> ELSE <<>>)
              /\ Len(db.tables["pipeline_metadata"]) <=
                     Cardinality(Done \cap {"log_csv", "log_api"})
                         + (IF load.pc = "raised" THEN 1 ELSE 0)
        /\ "schema" \notin Done =>
              (load.done = <<>> \/ load.done = <<"connect">>)

\* a load failed at dim_customer: the two dimensions loaded before it stay
\* persisted, the fact table and dim_user are left empty, and the only audit
\* row is the FAILED one
C18_Witness ==
    /\ load # NoLoad
    /\ load.pc = "raised"
    /\ load.run = 1
    /\ load.done = <<"connect", "schema", "dim_time", "dim_product">>
    /\ Len(db.tables["dim_time"]) = 1
    /\ Len(db.tables["dim_product"]) = 1
    /\ Len(Given("fact_sales")) > 0
    /\ db.tables["fact_sales"] = <<>>
    /\ Len(Given("dim_user")) > 0
    /\ db.tables["dim_user"] = <<>>
    /\ Len(db.tables["pipeline_metadata"]) = 1
    /\ db.tables["pipeline_metadata"][1].status = "FAILED"

\* the exception a stage wrapped into the one it raised, or the exception
\* itself
Cause(exc) == IF "cause" \in DOMAIN exc THEN exc.cause ELSE exc

\* the persisted entry a stage call of main that returned has left: a
\* validation report of its kind, or an audit row of its stage
LeftEntry(step) ==
    CASE step \in {"validate_csv", "validate_api"} ->
             \E i \in 1..Len(logs) : logs[i].source_type = KindOf(step)
      [] step \in {"transform_csv", "transform_api"} ->
             /\ "pipeline_metadata" \in DOMAIN db.tables
             /\ \E i \in 1..Len(db.tables["pipeline_metadata"]) :
                   db.tables["pipeline_metadata"][i].pipeline_stage = "TRANSFORM"
      [] OTHER ->
             /\ "pipeline_metadata" \in DOMAIN db.tables
             /\ \E i \in 1..Len(db.tables["pipeline_metadata"]) :
                   db.tables["pipeline_metadata"][i].pipeline_stage = "LOAD"

\* a persisted validation report or audit row carries the cause of exc
LeftCause(exc) ==
    \/ \E i \in 1..Len(logs) : \E j \in 1..Len(logs[i].errors) :
          logs[i].errors[j] = Cause(exc)
    \/ FailedRuns(db.tables, Cause(exc).msg) # {}

\* C16: no stage fails silently: when main has ended, every validate,
\* transform and load call it made, for either kind, has left a persisted
\* validation report or an audit-trail entry, and the call that failed one
\* that carries the causing message.
C16_NoSilentExit ==
    (main # NoMain /\ main.pc = "return") =>
        \A i \in 1..Len(main.started) :
            main.started[i] \notin {"ingest_csv", "ingest_api"} =>
                IF i <= Len(main.succeeded)
                THEN LeftEntry(main.started[i])
                ELSE LeftCause(main.e)

\* C19: main runs the stages strictly in the order ingestion, validation,
\* transformation, loading, each stage Sales before UserProfile; a stage call
\* starts only when every earlier one returned, so a failure of any stage for
\* either kind stops the run (nothing is loaded unless the loading stage was
\* reached); main returns 0 exactly when every stage call returned, 1 otherwise.
C19_StagesInOrder ==
    main # NoMain =>
        LET order == <<"ingest_csv", "ingest_api", "validate_csv", "validate_api",
                       "transform_csv", "transform_api", "load">>
        IN  /\ Len(main.started) <= 7
            /\ \A i \in 1..Len(main.started) : main.started[i] = order[i]
            /\ Len(main.succeeded) <= Len(main.started)
            /\ Len(main.started) <= Len(main.succeeded) + 1
            /\ \A i \in 1..Len(main.succeeded) : main.succeeded[i] = order[i]
            /\ Len(main.started) < 7 => (db.tables = <<>> /\ load = LoadIdle)
            /\ main.pc \in {"except", "return"} <=> main.exit_code # -1 \/ main.e # NoExc
            /\ main.pc = "return" =>
                  /\ main.exit_code \in {0, 1}
                  /\ main.exit_code = 0 <=> main.succeeded = order
                  /\ main.exit_code = 0 <=>
                        /\ main.e = NoExc
                        /\ load # LoadIdle
                        /\ load.pc = "returned"
                        /\ Len(logs) = 2
                        /\ \A i \in 1..2 : logs[i].status = "PASSED"
                        /\ Len(main.ingestion_log) = 2
                        /\ \A i \in 1..2 : main.ingestion_log[i].status = "SUCCESS"
            /\ main.pc # "return" => main.exit_code = -1

\* main returned 1 after the UserProfile validation failed: no transform or
\* load was started, the database holds nothing, both validation reports are
\* persisted
C19_Witness ==
    /\ main # NoMain
    /\ main.pc = "return"
    /\ main.exit_code = 1
    /\ main.started = <<"ingest_csv", "ingest_api", "validate_csv", "validate_api">>
    /\ main.succeeded = <<"ingest_csv", "ingest_api", "validate_csv">>
    /\ Len(main.csv_data.rows) = 2
    /\ main.transformed_csv = NoTables
    /\ db.tables = <<>>
    /\ Len(logs) = 2
    /\ logs[1].status = "PASSED"
    /\ logs[2].status = "FAILED"

====
